---- MODULE Spec2Model ----
(***************************************************************************)
(* Model of the server actions of saveit:                                  *)
(*   src/src/lib/actions/file.actions.ts  (uploadFile, getFiles,           *)
(*        deleteFile, getTotalSpaceUsed)                                   *)
(*   src/src/lib/actions/user.actions.ts  (verifySecret, getCurrentUser,   *)
(*        signOutUser)                                                     *)
(* The backend (bucket, document database, session service) is the shared  *)
(* state; every handler is cut at its awaits, and every backend call may   *)
(* either take effect and resolve, or reject without effect.               *)
(*                                                                         *)
(* Four specifications share the variables, each moving one group of them: *)
(*   Spec       uploadFile / deleteFile calls interleaved                  *)
(*   SpecAuth   verifySecret / getCurrentUser / signOutUser                *)
(*   SpecSpace  getTotalSpaceUsed                                          *)
(*   SpecList   getFiles and its concurrent owner lookups                  *)
(***************************************************************************)
EXTENDS Integers, Sequences, FiniteSets, TLC

\* ------------------------------------------------------------------ bounds
\* concurrent server-action invocations in flight (requests)
NumCalls == 2
\* ID.unique() values handed out for bucket objects
MaxUploads == 2

\* ------------------------------------------------------------- file state
VARIABLES
    bucket,          \* ids of the objects in the storage bucket
    filesCollection, \* the documents of the files collection: [id, data]
    filesAttributes, \* attribute keys the files collection defines
    nextFileId,      \* ID.unique() for bucket objects
    nextDocId,       \* ID.unique() for file documents
    uploaded,        \* what successful uploadFile calls returned: [id, data, obj]
    op,              \* per call: the handler running, or that ran last
    pc,              \* per call: the await the handler is parked at
    args,            \* per call: deleteFile's {fileId, bucketFileId}
    bucketFile,      \* per call: uploadFile's bucketFile.$id
    fileDocument,    \* per call: uploadFile's fileDocument
    trace,           \* per call: the backend calls made, in order, with outcome
    ret              \* per call: how the handler ended, and its value

fileVars == <<bucket, filesCollection, filesAttributes, nextFileId, nextDocId,
              uploaded, op, pc, args, bucketFile, fileDocument, trace, ret>>

\* ------------------------------------------------- session and user state
VARIABLES
    cookie,          \* the "appwrite-session" cookie: a session secret, or none
    sessions,        \* the sessions the session service holds valid
    usersCollection, \* the documents of the users collection
    soPc,            \* signOutUser: the await it is parked at
    soSession,       \* signOutUser: the secret its session client carries
    soTrace,         \* signOutUser: the calls made, in order, with outcome
    soResult,        \* signOutUser: how it ended
    gcuPc,           \* getCurrentUser: the await it is parked at
    gcuSession,      \* getCurrentUser: the secret its session client carries
    gcuAccount,      \* getCurrentUser: result.$id of account.get()
    gcuTrace,        \* getCurrentUser: the calls made, in order, with outcome
    gcuResult        \* getCurrentUser: how it ended, and its value

authVars == <<cookie, sessions, usersCollection, soPc, soSession, soTrace, soResult,
              gcuPc, gcuSession, gcuAccount, gcuTrace, gcuResult>>

\* ------------------------------------------------------ total-space state
VARIABLES
    spDocuments,     \* getTotalSpaceUsed: files.documents as listDocuments gave it
    spResult         \* getTotalSpaceUsed: how it ended, and totalSpace

spaceVars == <<spDocuments, spResult>>

\* ---------------------------------------------------------- listing state
VARIABLES
    lsPc,            \* getFiles: where the handler is
    lsFiles,         \* getFiles: filesResp.documents
    ownerIds,        \* getFiles: the owner ids collected from the files
    lookups,         \* getFiles: one async owner lookup per element of ownerIds
    ownerMap,        \* getFiles: ownerId -> user document, where resolved
    lsResult         \* getFiles: how it ended, and the documents returned

listVars == <<lsPc, lsFiles, ownerIds, lookups, ownerMap, lsResult>>

\* ------------------------------------------------------------ query state
VARIABLES
    lsStored,        \* the documents of the files collection a listing queries
    lsProps,         \* getFiles: { types, searchText, sort, limit } as passed
    lsUser           \* getFiles: currentUser

queryVars == <<lsStored, lsProps, lsUser>>

\* ---------------------------------------------------------- sign-up state
VARIABLES
    usersAttributes, \* attribute keys the users collection defines
    caPc,            \* per call of createAccount: the await it is parked at
    caEmail,         \* per call: the email it was called with
    caHadDocument,   \* per call: whether the email had a user document at the call
    caExistingUser,  \* per call: existingUser
    caAccountId,     \* per call: accountId
    caKey,           \* per call: the place in keysToEnsure of ensureAttributes' loop
    caResult         \* per call: how it ended

accountVars == <<usersAttributes, caPc, caEmail, caHadDocument, caExistingUser,
                 caAccountId, caKey, caResult>>

vars == <<fileVars, authVars, spaceVars, listVars, queryVars, accountVars>>

Calls == 1..NumCalls

\* ids are tagged so that a document id is never a bucket object id
FileId(n) == <<"file", n>>
DocId(n) == <<"doc", n>>
Undefined == <<"undefined", 0>>

\* the candidates of pickKey for the bucket reference, in the order tried
BucketFileKeys ==
    <<"bucketFileId", "bucket_file_id", "bucketFile", "bucket_file", "bucketField">>

BucketKeySet == {BucketFileKeys[i] : i \in 1..Len(BucketFileKeys)}

\* attribute sets of the files collection that listAttributes can report
FileSchemas ==
    { {"bucketFileId"},
      {"bucket_file_id", "bucketField"},
      {"bucket_file", "bucketFile", "bucketFileId"},
      {} }

NoKey == "null"

\* pickKey: the first candidate that is an existing attribute, else null
RECURSIVE PickKey(_, _)
PickKey(existingKeys, candidates) ==
    IF candidates = <<>> THEN NoKey
    ELSE IF Head(candidates) \in existingKeys THEN Head(candidates)
    ELSE PickKey(existingKeys, Tail(candidates))

\* the part of fileDocument that refers to the bucket object:
\* if (bucketFileKey) fileDocument[bucketFileKey] = bucketFile.$id
BuildFileDocument(existingKeys, bucketFileId) ==
    LET bucketFileKey == PickKey(existingKeys, BucketFileKeys)
    IN  [k \in (IF bucketFileKey # NoKey THEN {bucketFileKey} ELSE {}) |-> bucketFileId]

\* the bucket objects a file document refers to, one per reference field
BucketRefKeys(data) == DOMAIN data \cap BucketKeySet
BucketRefs(data) == {data[k] : k \in BucketRefKeys(data)}

\* file.bucketFileId as the caller of deleteFile reads it off a document
BucketFileIdOf(data) ==
    IF BucketRefKeys(data) = {} THEN Undefined
    ELSE data[CHOOSE k \in BucketRefKeys(data) : TRUE]

\* an empty response body in place of the object
DeletedFileEmpty == ""

\* JavaScript truthiness of what deleteDocument resolves to (the SDK declares
\* Promise<{}>: an object, which is truthy)
DeletedFile == "{}"
Truthy(v) == v \notin {"", "null", "undefined"}

Range(s) == {s[i] : i \in 1..Len(s)}

Call(name, ok) == [call |-> name, ok |-> ok]

\* the path argument of call c: the route of the page the call is made from
PagePath(c) == <<"/page", c>>

\* revalidatePath(path), as it shows in the trace of a call
RevalidatePath(path) == [call |-> "revalidatePath", ok |-> TRUE, path |-> path]
Threw == [kind |-> "threw", value |-> Undefined]
Returned(v) == [kind |-> "returned", value |-> v]
Pending == [kind |-> "pending", value |-> Undefined]
NoResult == [kind |-> "none", value |-> Undefined]
Success == <<"status", "success">>

InitFiles ==
    /\ bucket = {}
    /\ filesCollection = {}
    /\ filesAttributes \in FileSchemas
    /\ nextFileId = 1
    /\ nextDocId = 1
    /\ uploaded = {}
    /\ op = [c \in Calls |-> "none"]
    /\ pc = [c \in Calls |-> "idle"]
    /\ args = [c \in Calls |-> [fileId |-> Undefined, bucketFileId |-> Undefined]]
    /\ bucketFile = [c \in Calls |-> Undefined]
    /\ fileDocument = [c \in Calls |-> BuildFileDocument({}, Undefined)]
    /\ trace = [c \in Calls |-> <<>>]
    /\ ret = [c \in Calls |-> NoResult]

\* a handler ends: its promise settles and the call slot is free again
Finish(c, result, lastCalls) ==
    /\ pc' = [pc EXCEPT ![c] = "idle"]
    /\ trace' = [trace EXCEPT ![c] = trace[c] \o lastCalls]
    /\ ret' = [ret EXCEPT ![c] = result]

Park(c, at, lastCalls) ==
    /\ pc' = [pc EXCEPT ![c] = at]
    /\ trace' = [trace EXCEPT ![c] = trace[c] \o lastCalls]
    /\ UNCHANGED ret

\* ------------------------------------------------------------- uploadFile
\* uploadFile is invoked; storage.createFile(bucketId, ID.unique(), inputFile)
UploadCreateFile(c) ==
    /\ pc[c] = "idle"
    /\ nextFileId <= MaxUploads
    /\ op' = [op EXCEPT ![c] = "uploadFile"]
    /\ args' = [args EXCEPT ![c] = [fileId |-> Undefined, bucketFileId |-> Undefined]]
    /\ fileDocument' = [fileDocument EXCEPT ![c] = BuildFileDocument({}, Undefined)]
    /\ \/ /\ bucket' = bucket \cup {FileId(nextFileId)}
          /\ bucketFile' = [bucketFile EXCEPT ![c] = FileId(nextFileId)]
          /\ nextFileId' = nextFileId + 1
          /\ pc' = [pc EXCEPT ![c] = "listAttributes"]
          /\ trace' = [trace EXCEPT ![c] = <<Call("createFile", TRUE)>>]
          /\ ret' = [ret EXCEPT ![c] = Pending]
       \/ /\ bucketFile' = [bucketFile EXCEPT ![c] = Undefined]
          /\ pc' = [pc EXCEPT ![c] = "idle"]
          /\ trace' = [trace EXCEPT ![c] = <<Call("createFile", FALSE)>>]
          /\ ret' = [ret EXCEPT ![c] = Threw]
          /\ UNCHANGED <<bucket, nextFileId>>
    /\ UNCHANGED <<filesCollection, filesAttributes, nextDocId, uploaded>>
    /\ UNCHANGED <<authVars, spaceVars, listVars, queryVars, accountVars>>

\* databases.listAttributes(...), then fileDocument is built from existingKeys
UploadListAttributes(c) ==
    /\ pc[c] = "listAttributes"
    /\ \/ /\ fileDocument' = [fileDocument EXCEPT ![c] =
                                 BuildFileDocument(filesAttributes, bucketFile[c])]
          /\ Park(c, "createDocument", <<Call("listAttributes", TRUE)>>)
       \/ /\ Finish(c, Threw, <<Call("listAttributes", FALSE)>>)
          /\ UNCHANGED fileDocument
    /\ UNCHANGED <<bucket, filesCollection, filesAttributes, nextFileId, nextDocId,
                   uploaded, op, args, bucketFile>>
    /\ UNCHANGED <<authVars, spaceVars, listVars, queryVars, accountVars>>

\* databases.createDocument(..., ID.unique(), fileDocument); resolved:
\* revalidatePath(path); return parseStringify(newFile). Rejected: the .catch runs
UploadCreateDocument(c) ==
    /\ pc[c] = "createDocument"
    /\ \/ LET newFile == [id |-> DocId(nextDocId), data |-> fileDocument[c]]
          IN  /\ filesCollection' = filesCollection \cup {newFile}
              /\ nextDocId' = nextDocId + 1
              /\ uploaded' = uploaded \cup
                    {[id |-> newFile.id, data |-> newFile.data, obj |-> bucketFile[c]]}
              /\ Finish(c, Returned(newFile.id),
                        <<Call("createDocument", TRUE), RevalidatePath(PagePath(c))>>)
       \/ /\ Park(c, "rollback", <<Call("createDocument", FALSE)>>)
          /\ UNCHANGED <<filesCollection, nextDocId, uploaded>>
    /\ UNCHANGED <<bucket, filesAttributes, nextFileId, op, args, bucketFile,
                   fileDocument>>
    /\ UNCHANGED <<authVars, spaceVars, listVars, queryVars, accountVars>>

\* the .catch without its storage.deleteFile
UploadRollbackNoDelete(c) ==
    /\ pc[c] = "rollback"
    /\ Finish(c, Threw, <<Call("deleteFile", TRUE)>>)
    /\ UNCHANGED <<bucket, filesCollection, filesAttributes, nextFileId, nextDocId,
                   uploaded, op, args, bucketFile, fileDocument>>
    /\ UNCHANGED <<authVars, spaceVars, listVars, queryVars, accountVars>>

\* .catch: await storage.deleteFile(bucketId, bucketFile.$id); handleError(...)
\* throws the createDocument error, or the deleteFile error when that rejects
UploadRollback(c) ==
    /\ pc[c] = "rollback"
    /\ \/ /\ bucketFile[c] \in bucket
          /\ bucket' = bucket \ {bucketFile[c]}
          /\ Finish(c, Threw, <<Call("deleteFile", TRUE)>>)
       \/ /\ Finish(c, Threw, <<Call("deleteFile", FALSE)>>)
          /\ UNCHANGED bucket
    /\ UNCHANGED <<filesCollection, filesAttributes, nextFileId, nextDocId, uploaded,
                   op, args, bucketFile, fileDocument>>
    /\ UNCHANGED <<authVars, spaceVars, listVars, queryVars, accountVars>>

\* ------------------------------------------------------------- deleteFile
\* the handler with its two deletions in the other order
DeleteDocumentStorageFirst(c) ==
    \E f \in uploaded :
    /\ pc[c] = "idle"
    /\ op' = [op EXCEPT ![c] = "deleteFile"]
    /\ args' = [args EXCEPT ![c] =
                   [fileId |-> f.id, bucketFileId |-> BucketFileIdOf(f.data)]]
    /\ bucketFile' = [bucketFile EXCEPT ![c] = Undefined]
    /\ fileDocument' = [fileDocument EXCEPT ![c] = BuildFileDocument({}, Undefined)]
    /\ BucketFileIdOf(f.data) \in bucket
    /\ bucket' = bucket \ {BucketFileIdOf(f.data)}
    /\ pc' = [pc EXCEPT ![c] = "storageDelete"]
    /\ trace' = [trace EXCEPT ![c] = <<Call("deleteFile", TRUE)>>]
    /\ ret' = [ret EXCEPT ![c] = Pending]
    /\ UNCHANGED <<filesCollection, filesAttributes, nextFileId, nextDocId, uploaded>>
    /\ UNCHANGED <<authVars, spaceVars, listVars, queryVars, accountVars>>

\* deleteFile({fileId, bucketFileId}) is invoked for a file some upload
\* returned; databases.deleteDocument(..., fileId); if (deletedFile) go on to
\* storage.deleteFile, else revalidatePath and return {status: "success"}
DeleteDocument(c) ==
    \E f \in uploaded :
    /\ pc[c] = "idle"
    /\ op' = [op EXCEPT ![c] = "deleteFile"]
    /\ args' = [args EXCEPT ![c] =
                   [fileId |-> f.id, bucketFileId |-> BucketFileIdOf(f.data)]]
    /\ bucketFile' = [bucketFile EXCEPT ![c] = Undefined]
    /\ fileDocument' = [fileDocument EXCEPT ![c] = BuildFileDocument({}, Undefined)]
    /\ \/ /\ \E d \in filesCollection : d.id = f.id
          /\ filesCollection' = {d \in filesCollection : d.id # f.id}
          /\ IF Truthy(DeletedFile)
             THEN /\ pc' = [pc EXCEPT ![c] = "storageDelete"]
                  /\ trace' = [trace EXCEPT ![c] = <<Call("deleteDocument", TRUE)>>]
                  /\ ret' = [ret EXCEPT ![c] = Pending]
             ELSE /\ pc' = [pc EXCEPT ![c] = "idle"]
                  /\ trace' = [trace EXCEPT ![c] =
                        <<Call("deleteDocument", TRUE), RevalidatePath(PagePath(c))>>]
                  /\ ret' = [ret EXCEPT ![c] = Returned(Success)]
       \/ /\ pc' = [pc EXCEPT ![c] = "idle"]
          /\ trace' = [trace EXCEPT ![c] = <<Call("deleteDocument", FALSE)>>]
          /\ ret' = [ret EXCEPT ![c] = Threw]
          /\ UNCHANGED filesCollection
    /\ UNCHANGED <<bucket, filesAttributes, nextFileId, nextDocId, uploaded>>
    /\ UNCHANGED <<authVars, spaceVars, listVars, queryVars, accountVars>>

\* storage.deleteFile(bucketId, bucketFileId); revalidatePath(path);
\* return {status: "success"}
DeleteStorageFile(c) ==
    /\ pc[c] = "storageDelete"
    /\ \/ /\ args[c].bucketFileId \in bucket
          /\ bucket' = bucket \ {args[c].bucketFileId}
          /\ Finish(c, Returned(Success),
                    <<Call("deleteFile", TRUE), RevalidatePath(PagePath(c))>>)
       \/ /\ Finish(c, Threw, <<Call("deleteFile", FALSE)>>)
          /\ UNCHANGED bucket
    /\ UNCHANGED <<filesCollection, filesAttributes, nextFileId, nextDocId, uploaded,
                   op, args, bucketFile, fileDocument>>
    /\ UNCHANGED <<authVars, spaceVars, listVars, queryVars, accountVars>>

\* ------------------------------------------- renameFile, updateFileUsers
\* what renameFile and updateFileUsers are called with
FileNames == {"report"}
Extensions == {"pdf"}
EmailLists == {<<"e1">>}

\* `${name}.${extension}`
NewName(name, extension) == <<name, ".", extension>>

\* databases.updateDocument(..., fileId, { key: value }) on the data of the
\* document
UpdateData(data, key, value) ==
    [k \in DOMAIN data \cup {key} |-> IF k = key THEN value ELSE data[k]]

UpdateDocument(fileId, key, value) ==
    {IF d.id = fileId THEN [d EXCEPT !.data = UpdateData(d.data, key, value)] ELSE d :
        d \in filesCollection}

\* the handler with revalidatePath(path) ahead of its updateDocument
UpdateFileRevalidatesFirst(c, handler, fileId, key, value) ==
    /\ pc[c] = "idle"
    /\ op' = [op EXCEPT ![c] = handler]
    /\ args' = [args EXCEPT ![c] = [fileId |-> fileId, bucketFileId |-> Undefined]]
    /\ bucketFile' = [bucketFile EXCEPT ![c] = Undefined]
    /\ fileDocument' = [fileDocument EXCEPT ![c] = BuildFileDocument({}, Undefined)]
    /\ pc' = [pc EXCEPT ![c] = "idle"]
    /\ \/ /\ \E d \in filesCollection : d.id = fileId
          /\ filesCollection' = UpdateDocument(fileId, key, value)
          /\ trace' = [trace EXCEPT ![c] =
                <<RevalidatePath(PagePath(c)), Call("updateDocument", TRUE)>>]
          /\ ret' = [ret EXCEPT ![c] = Returned(fileId)]
       \/ /\ trace' = [trace EXCEPT ![c] =
                <<RevalidatePath(PagePath(c)), Call("updateDocument", FALSE)>>]
          /\ ret' = [ret EXCEPT ![c] = Threw]
          /\ UNCHANGED filesCollection
    /\ UNCHANGED <<bucket, filesAttributes, nextFileId, nextDocId, uploaded>>
    /\ UNCHANGED <<authVars, spaceVars, listVars, queryVars, accountVars>>

\* a handler of one awaited updateDocument, called for a file some upload
\* returned: resolved, revalidatePath(path) and return
\* parseStringify(updatedFile); rejected, handleError rethrows
UpdateFile(c, handler, fileId, key, value) ==
    /\ pc[c] = "idle"
    /\ op' = [op EXCEPT ![c] = handler]
    /\ args' = [args EXCEPT ![c] = [fileId |-> fileId, bucketFileId |-> Undefined]]
    /\ bucketFile' = [bucketFile EXCEPT ![c] = Undefined]
    /\ fileDocument' = [fileDocument EXCEPT ![c] = BuildFileDocument({}, Undefined)]
    /\ pc' = [pc EXCEPT ![c] = "idle"]
    /\ \/ /\ \E d \in filesCollection : d.id = fileId
          /\ filesCollection' = UpdateDocument(fileId, key, value)
          /\ trace' = [trace EXCEPT ![c] =
                <<Call("updateDocument", TRUE), RevalidatePath(PagePath(c))>>]
          /\ ret' = [ret EXCEPT ![c] = Returned(fileId)]
       \/ /\ trace' = [trace EXCEPT ![c] = <<Call("updateDocument", FALSE)>>]
          /\ ret' = [ret EXCEPT ![c] = Threw]
          /\ UNCHANGED filesCollection
    /\ UNCHANGED <<bucket, filesAttributes, nextFileId, nextDocId, uploaded>>
    /\ UNCHANGED <<authVars, spaceVars, listVars, queryVars, accountVars>>

\* renameFile({fileId, name, extension, path}): updateDocument(..., fileId,
\* { name: newName })
RenameFile(c) ==
    \E f \in uploaded, name \in FileNames, extension \in Extensions :
        UpdateFile(c, "renameFile", f.id, "name", NewName(name, extension))

\* updateFileUsers({fileId, emails, path}): updateDocument(..., fileId,
\* { users: emails })
UpdateFileUsers(c) ==
    \E f \in uploaded, emails \in EmailLists :
        UpdateFile(c, "updateFileUsers", f.id, "users", emails)

NextFiles ==
    \E c \in Calls :
        \/ UploadCreateFile(c)
        \/ UploadListAttributes(c)
        \/ UploadCreateDocument(c)
        \/ UploadRollback(c)
        \/ DeleteDocument(c)
        \/ DeleteStorageFile(c)

\* the calls that run the four mutating handlers: a call's trace and result
\* are written by its own steps only, so two calls in flight show every
\* way another call can get in between
MutateCalls == Calls \cap 1..2

\* the four handlers that mutate, called in any interleaving
NextMutate ==
    \E c \in MutateCalls :
        \/ UploadCreateFile(c)
        \/ UploadListAttributes(c)
        \/ UploadCreateDocument(c)
        \/ UploadRollback(c)
        \/ RenameFile(c)
        \/ UpdateFileUsers(c)
        \/ DeleteDocument(c)
        \/ DeleteStorageFile(c)

\* ------------------------------------------------ sessions and users
\* user documents: $id, accountId, email
User(id, accountId, email) == [id |-> id, accountId |-> accountId, email |-> email]
NoUser == User("", "", "")

\* "k1" is the $id of one document, the accountId of another and the email
\* of a third; account "a1" has two documents
UserDocuments ==
    { User("k1", "a1", "e1"),
      User("u2", "k1", "e2"),
      User("u3", "a3", "k1"),
      User("u4", "a1", "e4") }

\* sessions of the session service: the secret kept in the cookie, and the
\* account it belongs to
Session(secret, userId) == [secret |-> secret, userId |-> userId]
AllSessions == {Session("s1", "a1"), Session("s2", "a3"), Session("s9", "a9")}
NoCookie == "none"
Secrets == {x.secret : x \in AllSessions}

\* values a handler resolves to
JsUndefined == [type |-> "undefined", doc |-> NoUser]
JsNull == [type |-> "null", doc |-> NoUser]
JsObject(doc) == [type |-> "object", doc |-> doc]
Redirect == [kind |-> "redirect", value |-> JsUndefined]
ThrewError == [kind |-> "threw", value |-> JsUndefined]
ReturnedValue(v) == [kind |-> "returned", value |-> v]
PendingValue == [kind |-> "pending", value |-> JsUndefined]
NotCalled == [kind |-> "none", value |-> JsUndefined]

InitAuth ==
    /\ cookie \in {NoCookie} \cup Secrets
    /\ sessions \in SUBSET AllSessions
    /\ usersCollection \in SUBSET UserDocuments
    /\ soPc = "idle"
    /\ soSession = NoCookie
    /\ soTrace = <<>>
    /\ soResult = NotCalled
    /\ gcuPc = "idle"
    /\ gcuSession = NoCookie
    /\ gcuAccount = ""
    /\ gcuTrace = <<>>
    /\ gcuResult = NotCalled

\* verifySecret: account.createSession(accountId, password) resolves and the
\* session secret is stored in the cookie (a rejected createSession changes
\* nothing and is rethrown)
VerifySecret ==
    \E session \in AllSessions :
        /\ sessions' = sessions \cup {session}
        /\ cookie' = session.secret
        /\ UNCHANGED <<usersCollection, soPc, soSession, soTrace, soResult,
                       gcuPc, gcuSession, gcuAccount, gcuTrace, gcuResult>>
        /\ UNCHANGED <<fileVars, spaceVars, listVars, queryVars, accountVars>>

\* ------------------------------------------------------------ signOutUser
\* signOutUser is invoked
SignOutUser ==
    /\ soPc = "idle"
    /\ soPc' = "createSessionClient"
    /\ soSession' = NoCookie
    /\ soTrace' = <<>>
    /\ soResult' = PendingValue
    /\ UNCHANGED <<cookie, sessions, usersCollection,
                   gcuPc, gcuSession, gcuAccount, gcuTrace, gcuResult>>
    /\ UNCHANGED <<fileVars, spaceVars, listVars, queryVars, accountVars>>

\* const { account } = await createSessionClient(), before the try: a
\* rejection leaves signOutUser at once
SignOutCreateSessionClient ==
    /\ soPc = "createSessionClient"
    /\ \/ /\ soSession' = cookie
          /\ soPc' = "deleteSession"
          /\ soTrace' = Append(soTrace, Call("createSessionClient", TRUE))
          /\ UNCHANGED soResult
       \/ /\ soPc' = "idle"
          /\ soTrace' = Append(soTrace, Call("createSessionClient", FALSE))
          /\ soResult' = ThrewError
          /\ UNCHANGED soSession
    /\ UNCHANGED <<cookie, sessions, usersCollection,
                   gcuPc, gcuSession, gcuAccount, gcuTrace, gcuResult>>
    /\ UNCHANGED <<fileVars, spaceVars, listVars, queryVars, accountVars>>

\* try { await account.deleteSession("current"); cookies().delete(...) }
\* catch { handleError: rethrow } finally { redirect("/sign-in") }
SignOutDeleteSession ==
    /\ soPc = "deleteSession"
    /\ \/ /\ \E x \in sessions : x.secret = soSession
          /\ sessions' = {x \in sessions : x.secret # soSession}
          /\ cookie' = NoCookie
          /\ soTrace' = soTrace \o <<Call("deleteSession", TRUE),
                                      Call("cookies.delete", TRUE),
                                      Call("redirect", TRUE)>>
       \/ /\ soTrace' = soTrace \o <<Call("deleteSession", FALSE),
                                      Call("redirect", TRUE)>>
          /\ UNCHANGED <<sessions, cookie>>
    /\ soPc' = "idle"
    /\ soResult' = Redirect
    /\ UNCHANGED <<usersCollection, soSession,
                   gcuPc, gcuSession, gcuAccount, gcuTrace, gcuResult>>
    /\ UNCHANGED <<fileVars, spaceVars, listVars, queryVars, accountVars>>

\* --------------------------------------------------------- getCurrentUser
\* getCurrentUser is invoked
GetCurrentUser ==
    /\ gcuPc = "idle"
    /\ gcuPc' = "createSessionClient"
    /\ gcuSession' = NoCookie
    /\ gcuAccount' = ""
    /\ gcuTrace' = <<>>
    /\ gcuResult' = PendingValue
    /\ UNCHANGED <<cookie, sessions, usersCollection, soPc, soSession, soTrace, soResult>>
    /\ UNCHANGED <<fileVars, spaceVars, listVars, queryVars, accountVars>>

\* a catch that rethrows, as handleError does in the other handlers
GcuCatchRethrows(call) ==
    /\ gcuPc' = "idle"
    /\ gcuTrace' = Append(gcuTrace, Call(call, FALSE))
    /\ gcuResult' = ThrewError

\* what the catch of getCurrentUser does with a rejection: console.log, and
\* the function falls off its end
GcuCatch(call) ==
    /\ gcuPc' = "idle"
    /\ gcuTrace' = Append(gcuTrace, Call(call, FALSE))
    /\ gcuResult' = ReturnedValue(JsUndefined)

\* try { const { databases, account } = await createSessionClient();
GcuCreateSessionClient ==
    /\ gcuPc = "createSessionClient"
    /\ \/ /\ gcuSession' = cookie
          /\ gcuPc' = "account.get"
          /\ gcuTrace' = Append(gcuTrace, Call("createSessionClient", TRUE))
          /\ UNCHANGED gcuResult
       \/ /\ GcuCatch("createSessionClient")
          /\ UNCHANGED gcuSession
    /\ UNCHANGED <<cookie, sessions, usersCollection, soPc, soSession, soTrace, soResult,
                   gcuAccount>>
    /\ UNCHANGED <<fileVars, spaceVars, listVars, queryVars, accountVars>>

\* const result = await account.get();
GcuAccountGet ==
    /\ gcuPc = "account.get"
    /\ \/ \E x \in sessions :
             /\ x.secret = gcuSession
             /\ gcuAccount' = x.userId
             /\ gcuPc' = "listDocuments"
             /\ gcuTrace' = Append(gcuTrace, Call("account.get", TRUE))
             /\ UNCHANGED gcuResult
       \/ /\ GcuCatch("account.get")
          /\ UNCHANGED gcuAccount
    /\ UNCHANGED <<cookie, sessions, usersCollection, soPc, soSession, soTrace, soResult,
                   gcuSession>>
    /\ UNCHANGED <<fileVars, spaceVars, listVars, queryVars, accountVars>>

\* databases.listDocuments(users, [Query.equal(attribute, value)]): the
\* matching documents
UsersEqual(attribute, value) ==
    {u \in usersCollection : u[attribute] = value}

\* const user = await databases.listDocuments(..., [Query.equal("accountId",
\* result.$id)]); if (user.total <= 0) return null;
\* return parseStringify(user.documents[0]);
GcuListDocuments ==
    /\ gcuPc = "listDocuments"
    /\ \/ LET documents == UsersEqual("accountId", gcuAccount)
          IN  /\ gcuPc' = "idle"
              /\ gcuTrace' = Append(gcuTrace, Call("listDocuments", TRUE))
              /\ IF Cardinality(documents) <= 0
                 THEN gcuResult' = ReturnedValue(JsNull)
                 ELSE \E first \in documents : gcuResult' = ReturnedValue(JsObject(first))
       \/ GcuCatch("listDocuments")
    /\ UNCHANGED <<cookie, sessions, usersCollection, soPc, soSession, soTrace, soResult,
                   gcuSession, gcuAccount>>
    /\ UNCHANGED <<fileVars, spaceVars, listVars, queryVars, accountVars>>

NextAuth ==
    \/ VerifySecret
    \/ SignOutUser
    \/ SignOutCreateSessionClient
    \/ SignOutDeleteSession
    \/ GetCurrentUser
    \/ GcuCreateSessionClient
    \/ GcuAccountGet
    \/ GcuListDocuments

\* ------------------------------------------------------ getTotalSpaceUsed
FileTypes == {"image", "document", "video", "audio", "other"}

\* $updatedAt strings, here <<day, hour>>; "" is the empty tuple
Dates == {<<1, 5>>, <<1, 20>>, <<2, 0>>}
EmptyDate == <<>>

\* new Date(s): the instant a timestamp string denotes, in hours
NewDate(s) == s[1] * 24 + s[2]

SpaceFile(type, size, updatedAt) == [type |-> type, size |-> size, updatedAt |-> updatedAt]

\* the file documents a listing is drawn from: documents of every size and
\* date, and two files of each other type
SpaceFiles ==
    {SpaceFile("document", size, d) : size \in {10, 20, 30}, d \in Dates}
    \cup {SpaceFile(t, 10, <<1, 20>>) : t \in FileTypes \ {"document"}}
    \cup {SpaceFile(t, 30, <<1, 5>>) : t \in FileTypes \ {"document"}}

\* longest listing
MaxListed == 3

Listings == UNION {[1..n -> SpaceFiles] : n \in 0..MaxListed}

EmptySpace ==
    [image |-> [size |-> 0, latestDate |-> EmptyDate],
     document |-> [size |-> 0, latestDate |-> EmptyDate],
     video |-> [size |-> 0, latestDate |-> EmptyDate],
     audio |-> [size |-> 0, latestDate |-> EmptyDate],
     other |-> [size |-> 0, latestDate |-> EmptyDate],
     used |-> 0,
     all |-> 2 * 1024 * 1024]  \* in KiB: 2 * 1024 * 1024 * 1024 bytes

\* the callback with the comparison reversed
AddFileEarliest(totalSpace, file) ==
    LET added == [totalSpace EXCEPT ![file.type].size = @ + file.size,
                                    !.used = @ + file.size]
    IN  IF \/ added[file.type].latestDate = EmptyDate
           \/ NewDate(file.updatedAt) < NewDate(added[file.type].latestDate)
        THEN [added EXCEPT ![file.type].latestDate = file.updatedAt]
        ELSE added

\* the callback without its second addition
AddFileNotUsed(totalSpace, file) ==
    LET added == [totalSpace EXCEPT ![file.type].size = @ + file.size]
    IN  IF \/ added[file.type].latestDate = EmptyDate
           \/ NewDate(file.updatedAt) > NewDate(added[file.type].latestDate)
        THEN [added EXCEPT ![file.type].latestDate = file.updatedAt]
        ELSE added

\* the forEach callback: totalSpace[fileType].size += file.size;
\* totalSpace.used += file.size; latestDate replaced when it is empty or older
AddFile(totalSpace, file) ==
    LET added == [totalSpace EXCEPT ![file.type].size = @ + file.size,
                                    !.used = @ + file.size]
    IN  IF \/ added[file.type].latestDate = EmptyDate
           \/ NewDate(file.updatedAt) > NewDate(added[file.type].latestDate)
        THEN [added EXCEPT ![file.type].latestDate = file.updatedAt]
        ELSE added

\* files.documents.forEach(...)
RECURSIVE ForEachFile(_, _)
ForEachFile(totalSpace, documents) ==
    IF documents = <<>> THEN totalSpace
    ELSE ForEachFile(AddFile(totalSpace, Head(documents)), Tail(documents))

SpaceNotCalled == [kind |-> "none", value |-> EmptySpace]

InitSpace ==
    /\ spDocuments \in Listings
    /\ spResult = SpaceNotCalled

\* getTotalSpaceUsed: createSessionClient, getCurrentUser and listDocuments
\* resolve, the documents are folded and totalSpace is returned
GetTotalSpaceUsed ==
    /\ spResult.kind = "none"
    /\ spResult' = [kind |-> "returned", value |-> ForEachFile(EmptySpace, spDocuments)]
    /\ UNCHANGED spDocuments
    /\ UNCHANGED <<fileVars, authVars, listVars, queryVars, accountVars>>

\* getTotalSpaceUsed: one of them rejects, or there is no current user;
\* handleError rethrows
GetTotalSpaceUsedFails ==
    /\ spResult.kind = "none"
    /\ spResult' = [kind |-> "threw", value |-> EmptySpace]
    /\ UNCHANGED spDocuments
    /\ UNCHANGED <<fileVars, authVars, listVars, queryVars, accountVars>>

NextSpace ==
    \/ GetTotalSpaceUsed
    \/ GetTotalSpaceUsedFails

\* ----------------------------------------------------------------- getFiles
\* the owner field of a fetched file document: a string id, an object that
\* may carry $id, or null
StringOwner(id) == [kind |-> "string", id |-> id, doc |-> NoUser]
ObjectOwner(id) == [kind |-> "object", id |-> id, doc |-> NoUser]
NullOwner == [kind |-> "null", id |-> "", doc |-> NoUser]
\* a full user document attached as owner
UserOwner(user) == [kind |-> "object", id |-> user.id, doc |-> user]

OwnerValues ==
    {StringOwner("k1"), StringOwner("a1"), StringOwner("zz"), ObjectOwner("k1"),
     ObjectOwner(""), NullOwner}

\* users collections a listing runs against
UserCollections ==
    { UserDocuments,
      UserDocuments \ {User("k1", "a1", "e1")},
      {User("u3", "a3", "k1"), User("u4", "a1", "e4")},
      {} }

\* most documents a listing fetches
MaxFetched == 2

FileDoc(id, owner) == [id |-> id, owner |-> owner]

FetchedFiles ==
    UNION {{[i \in 1..n |-> FileDoc(i, owners[i])] : owners \in [1..n -> OwnerValues]}
           : n \in 0..MaxFetched}

\* the id an owner value carries, "" where the code has null:
\* typeof f.owner === "string" ? f.owner : (f.owner?.$id ?? null)
OwnerIdValue(owner) ==
    IF owner.kind = "string" THEN owner.id
    ELSE IF owner.kind = "object" THEN owner.id
    ELSE ""

\* the owner id of every file, in file order, repeats kept
RECURSIVE AllOwnerIds(_)
AllOwnerIds(files) ==
    IF files = <<>> THEN <<>>
    ELSE LET id == OwnerIdValue(Head(files).owner)
         IN  (IF id # "" THEN <<id>> ELSE <<>>) \o AllOwnerIds(Tail(files))

\* Array.from(new Set(files.map(...).filter(Boolean))): the truthy owner
\* ids, each once, in order of first appearance
RECURSIVE OwnerIds(_)
OwnerIds(files) ==
    IF files = <<>> THEN <<>>
    ELSE LET rest == OwnerIds(SubSeq(files, 1, Len(files) - 1))
             id == OwnerIdValue(files[Len(files)].owner)
         IN  IF id = "" \/ id \in Range(rest) THEN rest ELSE Append(rest, id)

NoOwners == [x \in {} |-> NoUser]

\* ownerMap[ownerId] = userDoc
SetOwner(map, ownerId, userDoc) ==
    [x \in DOMAIN map \cup {ownerId} |-> IF x = ownerId THEN userDoc ELSE map[x]]

\* files.map: owner: resolvedOwner ?? f.owner
FilesWithOwners(files, map) ==
    [i \in 1..Len(files) |->
        LET ownerIdValue == OwnerIdValue(files[i].owner)
        IN  IF ownerIdValue # "" /\ ownerIdValue \in DOMAIN map
            THEN [files[i] EXCEPT !.owner = UserOwner(map[ownerIdValue])]
            ELSE files[i]]

Tried(lookup, outcome, doc) == [lookup |-> lookup, outcome |-> outcome, doc |-> doc]
\* rank: the place of the lookup in the order the lookups ended, 0 while it runs
Lookup(ownerId) ==
    [ownerId |-> ownerId, at |-> "getDocument", tried |-> <<>>, rank |-> 0]

ListNotCalled == [kind |-> "none", documents |-> <<>>]

InitList ==
    /\ lsPc = "idle"
    /\ lsFiles = <<>>
    /\ ownerIds = <<>>
    /\ lookups = <<>>
    /\ ownerMap = NoOwners
    /\ lsResult = ListNotCalled

\* getFiles up to Promise.all: getCurrentUser and listDocuments resolve, the
\* owner ids are collected and one lookup per id is started; or one of them
\* rejects, or there is no current user, and handleError rethrows
GetFilesFetch ==
    /\ lsPc = "idle"
    /\ \/ \E documents \in FetchedFiles :
             /\ lsFiles' = documents
             /\ ownerIds' = OwnerIds(documents)
             /\ lookups' = [i \in 1..Len(OwnerIds(documents)) |->
                               Lookup(OwnerIds(documents)[i])]
             /\ lsPc' = "lookups"
             /\ lsResult' = [kind |-> "pending", documents |-> <<>>]
       \/ /\ lsPc' = "done"
          /\ lsResult' = [kind |-> "threw", documents |-> <<>>]
          /\ UNCHANGED <<lsFiles, ownerIds, lookups>>
    /\ UNCHANGED ownerMap
    /\ UNCHANGED <<fileVars, authVars, spaceVars, queryVars, accountVars>>

Ended == {j \in DOMAIN lookups : lookups[j].at = "done"}

Step(i, at, tried) ==
    lookups' = [lookups EXCEPT ![i].at = at,
                               ![i].tried = Append(@, tried),
                               ![i].rank = IF at = "done" THEN Cardinality(Ended) + 1
                                           ELSE 0]

\* the first fallback skipped
LookupGetDocumentThenEmail(i) ==
    /\ lsPc = "lookups"
    /\ i \in DOMAIN lookups
    /\ lookups[i].at = "getDocument"
    /\ \/ \E userDoc \in usersCollection :
             /\ userDoc.id = lookups[i].ownerId
             /\ ownerMap' = SetOwner(ownerMap, lookups[i].ownerId, userDoc)
             /\ Step(i, "done", Tried("getDocument", "found", userDoc))
       \/ /\ Step(i, "byEmail", Tried("getDocument", "rejected", NoUser))
          /\ UNCHANGED ownerMap
    /\ UNCHANGED <<lsPc, lsFiles, ownerIds, lsResult>>
    /\ UNCHANGED <<fileVars, authVars, spaceVars, queryVars, accountVars>>

\* try { userDoc = await databases.getDocument(users, ownerId);
\* ownerMap[ownerId] = userDoc } catch: go on to the lookup by accountId
LookupGetDocument(i) ==
    /\ lsPc = "lookups"
    /\ i \in DOMAIN lookups
    /\ lookups[i].at = "getDocument"
    /\ \/ \E userDoc \in usersCollection :
             /\ userDoc.id = lookups[i].ownerId
             /\ ownerMap' = SetOwner(ownerMap, lookups[i].ownerId, userDoc)
             /\ Step(i, "done", Tried("getDocument", "found", userDoc))
       \/ /\ Step(i, "byAccount", Tried("getDocument", "rejected", NoUser))
          /\ UNCHANGED ownerMap
    /\ UNCHANGED <<lsPc, lsFiles, ownerIds, lsResult>>
    /\ UNCHANGED <<fileVars, authVars, spaceVars, queryVars, accountVars>>

\* byAccount = await listDocuments(users, [equal("accountId", [ownerId]),
\* limit(1)]); total > 0: ownerMap[ownerId] = documents[0], return; else go
\* on to the lookup by email; a rejection ends the lookup in catch (err2)
LookupByAccount(i) ==
    /\ lsPc = "lookups"
    /\ i \in DOMAIN lookups
    /\ lookups[i].at = "byAccount"
    /\ \/ LET documents == UsersEqual("accountId", lookups[i].ownerId)
          IN  IF Cardinality(documents) > 0
              THEN \E first \in documents :
                      /\ ownerMap' = SetOwner(ownerMap, lookups[i].ownerId, first)
                      /\ Step(i, "done", Tried("byAccount", "found", first))
              ELSE /\ Step(i, "byEmail", Tried("byAccount", "empty", NoUser))
                   /\ UNCHANGED ownerMap
       \/ /\ Step(i, "done", Tried("byAccount", "rejected", NoUser))
          /\ UNCHANGED ownerMap
    /\ UNCHANGED <<lsPc, lsFiles, ownerIds, lsResult>>
    /\ UNCHANGED <<fileVars, authVars, spaceVars, queryVars, accountVars>>

\* byEmail = await listDocuments(users, [equal("email", [ownerId]),
\* limit(1)]); total > 0: ownerMap[ownerId] = documents[0]; a rejection
\* ends the lookup in catch (err2)
LookupByEmail(i) ==
    /\ lsPc = "lookups"
    /\ i \in DOMAIN lookups
    /\ lookups[i].at = "byEmail"
    /\ \/ LET documents == UsersEqual("email", lookups[i].ownerId)
          IN  IF Cardinality(documents) > 0
              THEN \E first \in documents :
                      /\ ownerMap' = SetOwner(ownerMap, lookups[i].ownerId, first)
                      /\ Step(i, "done", Tried("byEmail", "found", first))
              ELSE /\ Step(i, "done", Tried("byEmail", "empty", NoUser))
                   /\ UNCHANGED ownerMap
       \/ /\ Step(i, "done", Tried("byEmail", "rejected", NoUser))
          /\ UNCHANGED ownerMap
    /\ UNCHANGED <<lsPc, lsFiles, ownerIds, lsResult>>
    /\ UNCHANGED <<fileVars, authVars, spaceVars, queryVars, accountVars>>

\* a return that does not wait for the lookups
GetFilesReturnEarly ==
    /\ lsPc = "lookups"
    /\ lsPc' = "done"
    /\ lsResult' = [kind |-> "returned", documents |-> FilesWithOwners(lsFiles, ownerMap)]
    /\ UNCHANGED <<lsFiles, ownerIds, lookups, ownerMap>>
    /\ UNCHANGED <<fileVars, authVars, spaceVars, queryVars, accountVars>>

\* await Promise.all(...) resolves once every lookup has ended; the owners
\* are attached and { ...filesResp, documents: filesWithOwners } is returned
GetFilesReturn ==
    /\ lsPc = "lookups"
    /\ \A i \in DOMAIN lookups : lookups[i].at = "done"
    /\ lsPc' = "done"
    /\ lsResult' = [kind |-> "returned", documents |-> FilesWithOwners(lsFiles, ownerMap)]
    /\ UNCHANGED <<lsFiles, ownerIds, lookups, ownerMap>>
    /\ UNCHANGED <<fileVars, authVars, spaceVars, queryVars, accountVars>>

NextList ==
    \/ GetFilesFetch
    \/ \E i \in 1..MaxFetched : LookupGetDocument(i)
    \/ \E i \in 1..MaxFetched : LookupByAccount(i)
    \/ \E i \in 1..MaxFetched : LookupByEmail(i)
    \/ GetFilesReturn

\* --------------------------------------------------------- getFiles query
\* strings the query looks into are sequences of characters
Names == {<<"a", "b">>, <<"b", "a">>, <<"c">>}
SearchTexts == {<<>>, <<"a">>, <<"a", "b">>}

\* a document of the files collection as a listing sees it
StoredFile(id, owner, users, name, type) ==
    [id |-> id, owner |-> owner, users |-> users, name |-> name, type |-> type]

\* the documents a files collection is made of, before they get their ids
FileTemplates ==
    { StoredFile(0, StringOwner("k1"), {}, <<"a", "b">>, "image"),
      StoredFile(0, StringOwner("u3"), {"e1"}, <<"b", "a">>, "document"),
      StoredFile(0, StringOwner("u3"), {}, <<"a", "b">>, "image"),
      StoredFile(0, StringOwner("u2"), {"e4"}, <<"c">>, "document"),
      StoredFile(0, StringOwner("u5"), {}, <<"b", "a">>, "image") }

\* most documents the files collection holds when it is listed
MaxStored == 2

\* files collections in creation order, the id of a document its position
StoredFiles ==
    UNION {{[i \in 1..n |-> [files[i] EXCEPT !.id = i]] : files \in [1..n -> FileTemplates]}
           : n \in 0..MaxStored}

\* a user document without an email
NoEmailUser == User("u5", "a9", "")

\* the sort string "sortBy-orderBy", held as sort.split("-") yields it
Sort(sortBy, orderBy) == <<sortBy, orderBy>>

\* limit left out of the props
NoLimit == 0

Props(types, searchText, sort, limit) ==
    [types |-> types, searchText |-> searchText, sort |-> sort, limit |-> limit]

\* types = [], searchText = "", sort = "$createdAt-desc", limit
DefaultProps == Props(<<>>, <<>>, Sort("$createdAt", "desc"), NoLimit)

GetFilesProps ==
    { Props(o[1], st, o[2], o[3]) :
        o \in { <<<<>>, Sort("$createdAt", "desc"), NoLimit>>,
                <<<<"image">>, Sort("$createdAt", "asc"), NoLimit>>,
                <<<<>>, Sort("$createdAt", "desc"), 1>> },
        st \in SearchTexts }

\* the queries of the SDK
Query(method, attribute, values, queries) ==
    [method |-> method, attribute |-> attribute, values |-> values, queries |-> queries]
QueryEqual(attribute, values) == Query("equal", attribute, values, <<>>)
QueryContains(attribute, values) == Query("contains", attribute, values, <<>>)
QueryOr(queries) == Query("or", "", <<>>, queries)
QueryLimit(limit) == Query("limit", "", <<limit>>, <<>>)
QueryOrderAsc(attribute) == Query("orderAsc", attribute, <<>>, <<>>)
QueryOrderDesc(attribute) == Query("orderDesc", attribute, <<>>, <<>>)

\* a listing that is not narrowed to the current user
CreateQueriesAnyOwner(currentUser, types, searchText, sort, limit) ==
    (IF Len(types) > 0 THEN <<QueryEqual("type", types)>> ELSE <<>>)
    \o (IF searchText # <<>> THEN <<QueryContains("name", <<searchText>>)>> ELSE <<>>)
    \o (IF limit # NoLimit THEN <<QueryLimit(limit)>> ELSE <<>>)
    \o (IF sort[2] = "asc" THEN <<QueryOrderAsc(sort[1])>> ELSE <<QueryOrderDesc(sort[1])>>)

\* orClauses = [equal("owner", [currentUser.$id])], and contains("users",
\* [currentUser.email]) if the user has an email; queries = [or(orClauses)],
\* then the clauses for types, searchText, limit and sort that are given
CreateQueries(currentUser, types, searchText, sort, limit) ==
    LET orClauses ==
            <<QueryEqual("owner", <<currentUser.id>>)>>
            \o (IF currentUser.email # ""
                THEN <<QueryContains("users", <<currentUser.email>>)>> ELSE <<>>)
    IN  <<QueryOr(orClauses)>>
        \o (IF Len(types) > 0 THEN <<QueryEqual("type", types)>> ELSE <<>>)
        \o (IF searchText # <<>> THEN <<QueryContains("name", <<searchText>>)>> ELSE <<>>)
        \o (IF limit # NoLimit THEN <<QueryLimit(limit)>> ELSE <<>>)
        \o (IF sort[2] = "asc" THEN <<QueryOrderAsc(sort[1])>>
            ELSE <<QueryOrderDesc(sort[1])>>)

\* text occurs in string as a run of consecutive characters
Contains(string, text) ==
    \E i \in 0..(Len(string) - Len(text)) : SubSeq(string, i + 1, i + Len(text)) = text

\* what the database does with one query on one document: equal compares
\* the attribute with each value (a relationship by the id it holds),
\* contains looks for an element in an array attribute and for a substring
\* in a string attribute, or takes any of its queries
RECURSIVE Matches(_, _)
Matches(document, query) ==
    IF query.method = "equal"
    THEN IF query.attribute = "owner"
         THEN OwnerIdValue(document.owner) \in Range(query.values)
         ELSE document[query.attribute] \in Range(query.values)
    ELSE IF query.method = "contains"
    THEN IF query.attribute = "users"
         THEN \E value \in Range(query.values) : value \in document.users
         ELSE \E value \in Range(query.values) :
                 Contains(document[query.attribute], value)
    ELSE IF query.method = "or"
    THEN \E j \in DOMAIN query.queries : Matches(document, query.queries[j])
    ELSE TRUE

Reverse(s) == [i \in 1..Len(s) |-> s[Len(s) + 1 - i]]

\* databases.listDocuments(files, queries): the documents every query lets
\* through, in the order asked for ($createdAt is the order of the
\* collection), cut to the limit if there is one
ListDocuments(collection, queries) ==
    LET matching == SelectSeq(collection,
                        LAMBDA document : \A j \in DOMAIN queries :
                                             Matches(document, queries[j]))
        ordered == IF \E j \in DOMAIN queries : queries[j].method = "orderDesc"
                   THEN Reverse(matching) ELSE matching
        limits == {queries[j].values[1] : j \in {k \in DOMAIN queries :
                                                    queries[k].method = "limit"}}
    IN  IF limits = {} THEN ordered
        ELSE LET limit == CHOOSE l \in limits : TRUE
             IN  SubSeq(ordered, 1, IF limit < Len(ordered) THEN limit ELSE Len(ordered))

InitQuery ==
    /\ lsStored \in StoredFiles
    /\ lsProps = DefaultProps
    /\ lsUser = NoUser

\* getFiles is called: const currentUser = await getCurrentUser()
GetFiles ==
    /\ lsPc = "idle"
    /\ gcuPc = "idle"
    /\ \E props \in GetFilesProps : lsProps' = props
    /\ lsPc' = "getCurrentUser"
    /\ lsResult' = [kind |-> "pending", documents |-> <<>>]
    /\ gcuPc' = "createSessionClient"
    /\ gcuSession' = NoCookie
    /\ gcuAccount' = ""
    /\ gcuTrace' = <<>>
    /\ gcuResult' = PendingValue
    /\ UNCHANGED <<lsFiles, ownerIds, lookups, ownerMap, lsStored, lsUser>>
    /\ UNCHANGED <<cookie, sessions, usersCollection, soPc, soSession, soTrace, soResult>>
    /\ UNCHANGED <<fileVars, spaceVars, accountVars>>

\* if (!currentUser) throw new Error("User not found");
\* queries = createQueries(...); filesResp = await listDocuments(files,
\* queries); the owner ids are collected and one lookup per id is started.
\* A throw or a rejection goes to catch, where handleError rethrows
GetFilesListDocuments ==
    /\ lsPc = "getCurrentUser"
    /\ gcuPc = "idle"
    /\ gcuResult.kind = "returned"
    /\ IF gcuResult.value.type # "object"
       THEN /\ lsPc' = "done"
            /\ lsResult' = [kind |-> "threw", documents |-> <<>>]
            /\ UNCHANGED <<lsFiles, ownerIds, lookups, lsUser>>
       ELSE LET currentUser == gcuResult.value.doc
                queries == CreateQueries(currentUser, lsProps.types, lsProps.searchText,
                                         lsProps.sort, lsProps.limit)
                documents == ListDocuments(lsStored, queries)
            IN  /\ lsUser' = currentUser
                /\ \/ /\ lsFiles' = documents
                      /\ ownerIds' = OwnerIds(documents)
                      /\ lookups' = [i \in 1..Len(OwnerIds(documents)) |->
                                        Lookup(OwnerIds(documents)[i])]
                      /\ lsPc' = "lookups"
                      /\ UNCHANGED lsResult
                   \/ /\ lsPc' = "done"
                      /\ lsResult' = [kind |-> "threw", documents |-> <<>>]
                      /\ UNCHANGED <<lsFiles, ownerIds, lookups>>
    /\ UNCHANGED <<ownerMap, lsStored, lsProps>>
    /\ UNCHANGED <<fileVars, authVars, spaceVars, accountVars>>

NextQuery ==
    \/ GetFiles
    \/ GcuCreateSessionClient
    \/ GcuAccountGet
    \/ GcuListDocuments
    \/ GetFilesListDocuments
    \/ \E i \in 1..MaxStored : LookupGetDocument(i)
    \/ \E i \in 1..MaxStored : LookupByAccount(i)
    \/ \E i \in 1..MaxStored : LookupByEmail(i)
    \/ GetFilesReturn


\* ---------------------------------------------------------- createAccount
\* emails createAccount is called with
Emails == {"e1", "e2"}

\* the account the auth service holds for an email: createEmailToken
\* resolves to its id in session.userId
AccountOf(email) == <<"account", email>>
NoAccount == <<"account", "">>

\* ID.unique() of the user document call c creates
UserId(c) == <<"user", c>>

\* the user document of an earlier sign-up
SignedUp(email) == User(UserId(0), AccountOf(email), email)

KeysToEnsure == <<"fullName", "email", "avatar", "accountId">>

\* attribute sets the users collection can have before a sign-up
UsersSchemas == { Range(KeysToEnsure), Range(KeysToEnsure) \ {"accountId"} }

InitAccounts ==
    /\ usersAttributes \in UsersSchemas
    /\ caPc = [c \in Calls |-> "idle"]
    /\ caEmail = [c \in Calls |-> ""]
    /\ caHadDocument = [c \in Calls |-> FALSE]
    /\ caExistingUser = [c \in Calls |-> NoUser]
    /\ caAccountId = [c \in Calls |-> NoAccount]
    /\ caKey = [c \in Calls |-> 1]
    /\ caResult = [c \in Calls |-> "none"]

\* the users collection before the calls: empty, or the document of one
\* earlier sign-up
SignUpAuth ==
    /\ cookie = NoCookie
    /\ sessions = {}
    /\ usersCollection \in {{}, {SignedUp("e1")}}
    /\ soPc = "idle"
    /\ soSession = NoCookie
    /\ soTrace = <<>>
    /\ soResult = NotCalled
    /\ gcuPc = "idle"
    /\ gcuSession = NoCookie
    /\ gcuAccount = ""
    /\ gcuTrace = <<>>
    /\ gcuResult = NotCalled

\* the call ends with a throw
CaThrow(c) ==
    /\ caPc' = [caPc EXCEPT ![c] = "done"]
    /\ caResult' = [caResult EXCEPT ![c] = "threw"]

\* createAccount({fullName, email}) is called;
\* existingUser = await getUserByEmail(email): listDocuments(users,
\* [Query.equal("email", [email])]), total > 0 ? documents[0] : null.
\* A rejection is not caught
CreateAccount(c) ==
    /\ caPc[c] = "idle"
    /\ caResult[c] = "none"
    /\ \E email \in Emails :
          /\ caEmail' = [caEmail EXCEPT ![c] = email]
          /\ caHadDocument' = [caHadDocument EXCEPT ![c] = UsersEqual("email", email) # {}]
          /\ \/ /\ IF UsersEqual("email", email) # {}
                   THEN \E first \in UsersEqual("email", email) :
                           caExistingUser' = [caExistingUser EXCEPT ![c] = first]
                   ELSE caExistingUser' = [caExistingUser EXCEPT ![c] = NoUser]
                /\ caPc' = [caPc EXCEPT ![c] = "sendEmailOTP"]
                /\ caResult' = [caResult EXCEPT ![c] = "pending"]
             \/ /\ CaThrow(c)
                /\ UNCHANGED caExistingUser
    /\ UNCHANGED <<usersAttributes, caAccountId, caKey>>
    /\ UNCHANGED <<fileVars, authVars, spaceVars, listVars, queryVars>>

\* accountId = await sendEmailOTP({email}): createEmailToken(ID.unique(),
\* email), session.userId; a rejection is rethrown by handleError.
\* if (!existingUser) go on to ensureAttributes, else return { accountId }
CaSendEmailOTP(c) ==
    /\ caPc[c] = "sendEmailOTP"
    /\ \/ /\ caAccountId' = [caAccountId EXCEPT ![c] = AccountOf(caEmail[c])]
          /\ IF caExistingUser[c] = NoUser
             THEN /\ caPc' = [caPc EXCEPT ![c] = "listAttributes"]
                  /\ UNCHANGED caResult
             ELSE /\ caPc' = [caPc EXCEPT ![c] = "done"]
                  /\ caResult' = [caResult EXCEPT ![c] = "returned"]
       \/ /\ CaThrow(c)
          /\ UNCHANGED caAccountId
    /\ UNCHANGED <<usersAttributes, caEmail, caHadDocument, caExistingUser, caKey>>
    /\ UNCHANGED <<fileVars, authVars, spaceVars, listVars, queryVars>>

\* ensureAttributes goes on to its next key, or returns and createAccount
\* goes on to createDocument
CaNextKey(c) ==
    IF caKey[c] < Len(KeysToEnsure)
    THEN /\ caKey' = [caKey EXCEPT ![c] = caKey[c] + 1]
         /\ caPc' = [caPc EXCEPT ![c] = "listAttributes"]
    ELSE /\ caPc' = [caPc EXCEPT ![c] = "createDocument"]
         /\ UNCHANGED caKey

\* ensureStringAttribute(key): attrsResp = await listAttributes(...);
\* if (exists) return false. A rejection is rethrown by ensureAttributes,
\* then by handleError
CaListAttributes(c) ==
    /\ caPc[c] = "listAttributes"
    /\ \/ /\ IF KeysToEnsure[caKey[c]] \in usersAttributes
             THEN CaNextKey(c)
             ELSE /\ caPc' = [caPc EXCEPT ![c] = "createStringAttribute"]
                  /\ UNCHANGED caKey
          /\ UNCHANGED caResult
       \/ /\ CaThrow(c)
          /\ UNCHANGED caKey
    /\ UNCHANGED <<usersAttributes, caEmail, caHadDocument, caExistingUser, caAccountId>>
    /\ UNCHANGED <<fileVars, authVars, spaceVars, listVars, queryVars>>

\* await databases.createStringAttribute(..., key, size, required); the
\* database rejects a key the collection has by now
CaCreateStringAttribute(c) ==
    /\ caPc[c] = "createStringAttribute"
    /\ \/ /\ KeysToEnsure[caKey[c]] \notin usersAttributes
          /\ usersAttributes' = usersAttributes \cup {KeysToEnsure[caKey[c]]}
          /\ CaNextKey(c)
          /\ UNCHANGED caResult
       \/ /\ CaThrow(c)
          /\ UNCHANGED <<usersAttributes, caKey>>
    /\ UNCHANGED <<caEmail, caHadDocument, caExistingUser, caAccountId>>
    /\ UNCHANGED <<fileVars, authVars, spaceVars, listVars, queryVars>>

\* await databases.createDocument(users, ID.unique(), { fullName, email,
\* avatar, accountId }); return parseStringify({ accountId }); a rejection
\* is rethrown
CaCreateDocument(c) ==
    /\ caPc[c] = "createDocument"
    /\ \/ /\ usersCollection' = usersCollection \cup
                {User(UserId(c), caAccountId[c], caEmail[c])}
          /\ caPc' = [caPc EXCEPT ![c] = "done"]
          /\ caResult' = [caResult EXCEPT ![c] = "returned"]
       \/ /\ CaThrow(c)
          /\ UNCHANGED usersCollection
    /\ UNCHANGED <<usersAttributes, caEmail, caHadDocument, caExistingUser, caAccountId,
                   caKey>>
    /\ UNCHANGED <<cookie, sessions, soPc, soSession, soTrace, soResult,
                   gcuPc, gcuSession, gcuAccount, gcuTrace, gcuResult>>
    /\ UNCHANGED <<fileVars, spaceVars, listVars, queryVars>>

NextAccounts ==
    \E c \in Calls :
        \/ CreateAccount(c)
        \/ CaSendEmailOTP(c)
        \/ CaListAttributes(c)
        \/ CaCreateStringAttribute(c)
        \/ CaCreateDocument(c)


\* ------------------------------------------------------ the specifications
\* the groups a specification does not move stay as constructed
QuietFiles ==
    /\ bucket = {}
    /\ filesCollection = {}
    /\ filesAttributes = {"bucketFileId"}
    /\ nextFileId = 1
    /\ nextDocId = 1
    /\ uploaded = {}
    /\ op = [c \in Calls |-> "none"]
    /\ pc = [c \in Calls |-> "idle"]
    /\ args = [c \in Calls |-> [fileId |-> Undefined, bucketFileId |-> Undefined]]
    /\ bucketFile = [c \in Calls |-> Undefined]
    /\ fileDocument = [c \in Calls |-> BuildFileDocument({}, Undefined)]
    /\ trace = [c \in Calls |-> <<>>]
    /\ ret = [c \in Calls |-> NoResult]

QuietAuth ==
    /\ cookie = NoCookie
    /\ sessions = {}
    /\ usersCollection = UserDocuments
    /\ soPc = "idle"
    /\ soSession = NoCookie
    /\ soTrace = <<>>
    /\ soResult = NotCalled
    /\ gcuPc = "idle"
    /\ gcuSession = NoCookie
    /\ gcuAccount = ""
    /\ gcuTrace = <<>>
    /\ gcuResult = NotCalled

\* as QuietAuth, with the users collection a listing runs against
QuietAuthUsers ==
    /\ cookie = NoCookie
    /\ sessions = {}
    /\ usersCollection \in UserCollections
    /\ soPc = "idle"
    /\ soSession = NoCookie
    /\ soTrace = <<>>
    /\ soResult = NotCalled
    /\ gcuPc = "idle"
    /\ gcuSession = NoCookie
    /\ gcuAccount = ""
    /\ gcuTrace = <<>>
    /\ gcuResult = NotCalled

QuietSpace ==
    /\ spDocuments = <<>>
    /\ spResult = SpaceNotCalled

QuietQuery ==
    /\ lsStored = <<>>
    /\ lsProps = DefaultProps
    /\ lsUser = NoUser

QuietAccounts ==
    /\ usersAttributes = Range(KeysToEnsure)
    /\ caPc = [c \in Calls |-> "idle"]
    /\ caEmail = [c \in Calls |-> ""]
    /\ caHadDocument = [c \in Calls |-> FALSE]
    /\ caExistingUser = [c \in Calls |-> NoUser]
    /\ caAccountId = [c \in Calls |-> NoAccount]
    /\ caKey = [c \in Calls |-> 1]
    /\ caResult = [c \in Calls |-> "none"]

\* every session valid, one of them for an account that may have no user
\* document, or one without an email
QueryAuth ==
    /\ cookie \in {NoCookie} \cup Secrets
    /\ sessions = AllSessions
    /\ usersCollection \in {UserDocuments, UserDocuments \cup {NoEmailUser}}
    /\ soPc = "idle"
    /\ soSession = NoCookie
    /\ soTrace = <<>>
    /\ soResult = NotCalled
    /\ gcuPc = "idle"
    /\ gcuSession = NoCookie
    /\ gcuAccount = ""
    /\ gcuTrace = <<>>
    /\ gcuResult = NotCalled

Init == InitFiles /\ QuietAuth /\ QuietSpace /\ InitList /\ QuietQuery /\ QuietAccounts

Next == NextFiles

Spec == Init /\ [][Next]_vars

AuthInit == QuietFiles /\ InitAuth /\ QuietSpace /\ InitList /\ QuietQuery /\ QuietAccounts

SpecAuth == AuthInit /\ [][NextAuth]_vars

SpaceInit == QuietFiles /\ QuietAuth /\ InitSpace /\ InitList /\ QuietQuery /\ QuietAccounts

SpecSpace == SpaceInit /\ [][NextSpace]_vars

ListInit == QuietFiles /\ QuietAuthUsers /\ QuietSpace /\ InitList /\ QuietQuery /\ QuietAccounts

SpecList == ListInit /\ [][NextList]_vars

QueryInit == QuietFiles /\ QueryAuth /\ QuietSpace /\ InitList /\ InitQuery /\ QuietAccounts

SpecQuery == QueryInit /\ [][NextQuery]_vars

MutateInit == QuietFiles /\ QuietAuth /\ QuietSpace /\ InitList /\ QuietQuery /\ QuietAccounts

SpecMutate == MutateInit /\ [][NextMutate]_vars

AccountInit ==
    QuietFiles /\ SignUpAuth /\ QuietSpace /\ InitList /\ QuietQuery /\ InitAccounts

SpecAccount == AccountInit /\ [][NextAccounts]_vars

\* ---------------------------------------------------- claims on Spec
HasBucketAttribute == PickKey(filesAttributes, BucketFileKeys) # NoKey

\* C1 as stated: every file document that exists references exactly one
\* bucket object, and that object is in the bucket.
C1_EveryDocumentHasItsObject ==
    \A d \in filesCollection :
        /\ Cardinality(BucketRefs(d.data)) = 1
        /\ BucketRefs(d.data) \subseteq bucket

\* C1 amended: when the files collection defines at least one of the five
\* bucket-reference attributes pickKey looks for, every file document that
\* exists references exactly one bucket object, and that object is in the
\* bucket, under any interleaving of uploadFile and deleteFile calls with
\* any backend call failing.
C1_DocumentHasItsObjectIfAttribute ==
    HasBucketAttribute => C1_EveryDocumentHasItsObject

\* a document exists while a deleteFile is between its two deletions and
\* another call has ended in a backend failure
C1_Witness ==
    /\ HasBucketAttribute
    /\ filesCollection # {}
    /\ \E c \in Calls : pc[c] = "storageDelete" /\ args[c].bucketFileId \in bucket
    /\ \E c \in Calls : pc[c] = "idle" /\ ret[c].kind = "threw"

\* uploadFile has ended after createFile resolved and createDocument rejected
CreateDocumentFailed(c) ==
    /\ op[c] = "uploadFile"
    /\ pc[c] = "idle"
    /\ Call("createFile", TRUE) \in Range(trace[c])
    /\ Call("createDocument", FALSE) \in Range(trace[c])

NothingLeftOf(c) ==
    /\ bucketFile[c] \notin bucket
    /\ \A d \in filesCollection : bucketFile[c] \notin BucketRefs(d.data)
    /\ \A u \in uploaded : u.obj # bucketFile[c]

NoDocumentOf(c) ==
    /\ \A d \in filesCollection : bucketFile[c] \notin BucketRefs(d.data)
    /\ \A u \in uploaded : u.obj # bucketFile[c]

\* C2 as stated: when createFile stored the bytes and createDocument then
\* fails, uploadFile deletes the object, throws, and leaves neither a
\* document nor a bucket object of that call.
C2_RollbackLeavesNothing ==
    \A c \in Calls :
        CreateDocumentFailed(c) =>
            /\ Call("deleteFile", TRUE) \in Range(trace[c])
            /\ ret[c].kind = "threw"
            /\ NothingLeftOf(c)

\* C2 amended: when createFile stored the bytes and createDocument then
\* fails, uploadFile calls storage.deleteFile for the object it created and
\* ends by throwing without a document of that call; when that deleteFile
\* resolves the bucket object is gone too, and when it rejects the bucket
\* object stays.
C2_RollbackUnlessDeleteFails ==
    \A c \in Calls :
        CreateDocumentFailed(c) =>
            /\ trace[c][Len(trace[c])].call = "deleteFile"
            /\ ret[c].kind = "threw"
            /\ NoDocumentOf(c)
            /\ Call("deleteFile", TRUE) \in Range(trace[c]) => NothingLeftOf(c)
            /\ Call("deleteFile", FALSE) \in Range(trace[c]) => bucketFile[c] \in bucket

\* an upload whose createDocument failed has been rolled back
C2_Witness ==
    \E c \in Calls :
        /\ CreateDocumentFailed(c)
        /\ Call("deleteFile", TRUE) \in Range(trace[c])

\* C3: a deleteFile that returned {status: "success"} for a file an upload
\* created leaves neither that upload's document nor its bucket object.
C3_UploadThenDeleteLeavesNothing ==
    \A c \in Calls :
        (op[c] = "deleteFile" /\ pc[c] = "idle" /\ ret[c].kind = "returned") =>
            \A u \in uploaded :
                u.id = args[c].fileId =>
                    /\ u.obj \notin bucket
                    /\ \A d \in filesCollection : d.id # u.id

\* a deleteFile of an uploaded file has returned success
C3_Witness ==
    \E c \in Calls :
        /\ op[c] = "deleteFile" /\ pc[c] = "idle" /\ ret[c].kind = "returned"
        /\ \E u \in uploaded : u.id = args[c].fileId

\* ------------------------------------------------ claims on SpecAuth
\* signOutUser ends in this step, having got as far as deleteSession
SignOutEnds == soPc = "deleteSession" /\ soPc' = "idle"

\* C4: once signOutUser has run (here: a call that got its session client)
\* the "appwrite-session" cookie is cleared, also when the remote session
\* deletion fails.
C4_SignOutClearsCookie ==
    [][SignOutEnds => cookie' = NoCookie]_vars

\* C5: every call of signOutUser ends with the redirect to /sign-in,
\* whether the session deletion succeeded or failed and whether or not a
\* session client could be created.
C5_SignOutAlwaysRedirects ==
    (soPc = "idle" /\ soResult.kind # "none") =>
        /\ soResult.kind = "redirect"
        /\ Call("redirect", TRUE) \in Range(soTrace)

GcuDone == gcuPc = "idle" /\ gcuResult.kind # "none"
GcuFailed == \E i \in 1..Len(gcuTrace) : ~gcuTrace[i].ok

\* C8: getCurrentUser never throws; when createSessionClient, account.get
\* or listDocuments fails it returns undefined, when no user document has
\* the account id of the session it returns null, and it returns a user
\* document only when that document is stored with the account id of the
\* session.
C8_GetCurrentUserNeverThrows ==
    GcuDone =>
        /\ gcuResult.kind = "returned"
        /\ GcuFailed => gcuResult.value = JsUndefined
        /\ (~GcuFailed /\ UsersEqual("accountId", gcuAccount) = {}) =>
               gcuResult.value = JsNull
        /\ gcuResult.value.type = "object" =>
               /\ ~GcuFailed
               /\ gcuResult.value.doc \in usersCollection
               /\ gcuResult.value.doc.accountId = gcuAccount
               /\ \E x \in AllSessions : x.secret = gcuSession /\ x.userId = gcuAccount

\* getCurrentUser has returned the user document of the session's account
\* out of a collection of several
C8_Witness ==
    /\ GcuDone
    /\ gcuResult.value.type = "object"
    /\ Cardinality(usersCollection) > 1

\* ----------------------------------------------- claims on SpecSpace
RECURSIVE SumSizes(_)
SumSizes(files) ==
    IF files = {} THEN 0
    ELSE LET i == CHOOSE x \in files : TRUE
         IN  spDocuments[i].size + SumSizes(files \ {i})

OfType(t) == {i \in 1..Len(spDocuments) : spDocuments[i].type = t}

RECURSIVE SumBuckets(_, _)
SumBuckets(totalSpace, types) ==
    IF types = {} THEN 0
    ELSE LET t == CHOOSE x \in types : TRUE
         IN  totalSpace[t].size + SumBuckets(totalSpace, types \ {t})

ThreeDocuments ==
    /\ Len(spDocuments) = 3
    /\ \A i \in 1..3 : spDocuments[i].type = "document"
    /\ {spDocuments[i].size : i \in 1..3} = {10, 20, 30}

\* C6: getTotalSpaceUsed adds each file's size once to the bucket of the
\* file's type and once to used: every bucket's size is the sum of the
\* sizes of the files of its type, used is the sum of the five buckets and
\* of all file sizes, and three documents of 10, 20 and 30 bytes give a
\* document bucket of 60.
C6_SizesCountedOnce ==
    spResult.kind = "returned" =>
        LET totalSpace == spResult.value
        IN  /\ \A t \in FileTypes : totalSpace[t].size = SumSizes(OfType(t))
            /\ totalSpace.used = SumBuckets(totalSpace, FileTypes)
            /\ totalSpace.used = SumSizes(1..Len(spDocuments))
            /\ ThreeDocuments => totalSpace.document.size = 60

\* the total of three documents of 10, 20 and 30 bytes has been computed
C6_Witness ==
    /\ spResult.kind = "returned"
    /\ ThreeDocuments

\* C7: for every list of file documents, in any order, each bucket's
\* latestDate is the greatest $updatedAt among the files of its type, and
\* is empty for a type with no file.
C7_LatestDateIsGreatest ==
    spResult.kind = "returned" =>
        \A t \in FileTypes :
            LET latestDate == spResult.value[t].latestDate
            IN  IF OfType(t) = {} THEN latestDate = EmptyDate
                ELSE /\ \E i \in OfType(t) : spDocuments[i].updatedAt = latestDate
                     /\ \A i \in OfType(t) :
                            NewDate(spDocuments[i].updatedAt) <= NewDate(latestDate)

\* three files of one type whose most recent one is neither first nor last,
\* and a type with no file
C7_Witness ==
    /\ spResult.kind = "returned"
    /\ Len(spDocuments) = 3
    /\ \A i \in 1..3 : spDocuments[i].type = "document"
    /\ NewDate(spDocuments[2].updatedAt) > NewDate(spDocuments[1].updatedAt)
    /\ NewDate(spDocuments[2].updatedAt) > NewDate(spDocuments[3].updatedAt)
    /\ spResult.value.image.latestDate = EmptyDate

\* ------------------------------------------------ claims on SpecList
LookupOrder == <<"getDocument", "byAccount", "byEmail">>

\* what a lookup may have tried so far: the three lookups in their order,
\* the lookup by accountId only after getDocument was rejected, and the
\* owner resolved to the document the first successful lookup found
TriedInOrder(l) ==
    /\ Len(l.tried) <= 3
    /\ \A n \in 1..Len(l.tried) : l.tried[n].lookup = LookupOrder[n]
    /\ \A n \in 1..(Len(l.tried) - 1) : l.tried[n].outcome # "found"
    /\ Len(l.tried) >= 2 => l.tried[1].outcome = "rejected"
    /\ l.at = "getDocument" <=> l.tried = <<>>
    /\ (Len(l.tried) = 1 /\ l.tried[1].outcome = "rejected") => l.at = "byAccount"
    /\ \A n \in 1..Len(l.tried) :
          l.tried[n].outcome = "found" =>
              /\ l.at = "done"
              /\ l.ownerId \in DOMAIN ownerMap
              /\ ownerMap[l.ownerId] = l.tried[n].doc
              /\ l.tried[n].doc \in usersCollection
              /\ n = 1 => l.tried[n].doc.id = l.ownerId
              /\ n = 2 => l.tried[n].doc.accountId = l.ownerId
              /\ n = 3 => l.tried[n].doc.email = l.ownerId
    /\ (\A n \in 1..Len(l.tried) : l.tried[n].outcome # "found") =>
          l.ownerId \notin DOMAIN ownerMap

\* C9 as stated: direct lookup first; when it fails the lookup by account
\* id; when the lookup by account id does not resolve the owner the lookup
\* by email; the owner is the document of the first lookup that finds one.
C9_FallbackWheneverUnresolved ==
    \A i \in DOMAIN lookups :
        /\ TriedInOrder(lookups[i])
        /\ (lookups[i].at = "done" /\ Len(lookups[i].tried) >= 2
              /\ lookups[i].tried[2].outcome # "found") => Len(lookups[i].tried) = 3

\* C9 amended: direct lookup first; when it fails the lookup by account id;
\* when the lookup by account id resolves with no document the lookup by
\* email is tried, and when the lookup by account id itself fails the lookup
\* by email is not tried and the owner stays unresolved; the owner is the
\* document of the first lookup that finds one.
C9_FallbackWhenNoMatch ==
    \A i \in DOMAIN lookups :
        /\ TriedInOrder(lookups[i])
        /\ (Len(lookups[i].tried) >= 2 /\ lookups[i].tried[2].outcome = "empty") =>
              (lookups[i].at = "byEmail" \/ Len(lookups[i].tried) = 3)
        /\ (Len(lookups[i].tried) >= 2 /\ lookups[i].tried[2].outcome = "rejected") =>
              (lookups[i].at = "done" /\ Len(lookups[i].tried) = 2)

\* an owner id that getDocument did not find and no accountId matched has
\* been resolved by email
C9_Witness ==
    \E i \in DOMAIN lookups :
        /\ lookups[i].at = "done"
        /\ Len(lookups[i].tried) = 3
        /\ lookups[i].tried[3].outcome = "found"

Resolved(id) == id # "" /\ id \in DOMAIN ownerMap

\* C10: one lookup per distinct owner id, all in flight together; getFiles
\* returns only once all of them have ended, and then, whichever lookups
\* failed and in whatever order they ended, returns every fetched file, with
\* the owner's user document where the owner was resolved and the original
\* owner value where it was not; only a failure before the lookups makes
\* getFiles throw.
C10_AllFilesReturned ==
    /\ \A i, j \in DOMAIN lookups : lookups[i].ownerId = lookups[j].ownerId => i = j
    /\ lsPc # "idle" =>
          {lookups[i].ownerId : i \in DOMAIN lookups} = Range(AllOwnerIds(lsFiles))
    /\ lsResult.kind = "threw" => lookups = <<>>
    /\ lsPc = "done" /\ lookups # <<>> => lsResult.kind = "returned"
    /\ lsResult.kind = "returned" =>
          /\ \A i \in DOMAIN lookups : lookups[i].at = "done"
          /\ Len(lsResult.documents) = Len(lsFiles)
          /\ \A n \in 1..Len(lsFiles) :
                LET id == OwnerIdValue(lsFiles[n].owner)
                    out == lsResult.documents[n]
                IN  /\ out.id = lsFiles[n].id
                    /\ Resolved(id) => out.owner = UserOwner(ownerMap[id])
                    /\ ~Resolved(id) => out.owner = lsFiles[n].owner

\* two files of different owners: the second lookup ended, by failing,
\* before the first, and getFiles returned one owner resolved and the other
\* as it was
C10_Witness ==
    /\ lsResult.kind = "returned"
    /\ Len(lookups) = 2
    /\ lookups[2].rank = 1
    /\ lookups[1].rank = 2
    /\ Len(lookups[1].tried) > 1
    /\ Resolved(lookups[1].ownerId)
    /\ ~Resolved(lookups[2].ownerId)
    /\ lookups[2].tried[Len(lookups[2].tried)].outcome = "rejected"
    /\ lsResult.documents[1].owner.doc # NoUser
    /\ lsResult.documents[2].owner = lsFiles[2].owner

\* ---------------------------------------------------- claims on SpecQuery
\* the stored document a returned document came from
StoredOf(document) == lsStored[document.id]

\* owned by the user, or shared with the user's email
OwnedOrShared(document, user) ==
    \/ OwnerIdValue(document.owner) = user.id
    \/ user.email \in document.users

NoCurrentUser == gcuResult.kind = "returned" /\ gcuResult.value.type # "object"

\* C11: getFiles returns only documents whose owner is the current user's
\* document id or whose users list holds the current user's email, and,
\* given a non-empty search term, only documents whose name contains the
\* term; when getCurrentUser returns no user, getFiles throws and returns
\* no documents
C11_OnlyOwnedOrSharedAndMatching ==
    lsPc = "done" =>
        /\ lsResult.kind = "returned" =>
              \A i \in DOMAIN lsResult.documents :
                 /\ OwnedOrShared(StoredOf(lsResult.documents[i]), lsUser)
                 /\ lsProps.searchText # <<>> =>
                       Contains(StoredOf(lsResult.documents[i]).name, lsProps.searchText)
        /\ NoCurrentUser => lsResult.kind = "threw" /\ lsResult.documents = <<>>

\* a search by a user who is shared a document by email: that document is
\* returned and another stored document is left out
C11_Witness ==
    /\ lsPc = "done"
    /\ lsResult.kind = "returned"
    /\ lsProps.searchText # <<>>
    /\ Len(lsResult.documents) < Len(lsStored)
    /\ \E i \in DOMAIN lsResult.documents :
          /\ OwnerIdValue(StoredOf(lsResult.documents[i]).owner) # lsUser.id
          /\ lsUser.email \in StoredOf(lsResult.documents[i]).users

\* ---------------------------------------------------- claims on SpecMutate
Mutations == {"uploadFile", "renameFile", "updateFileUsers", "deleteFile"}

\* the places of the trace of call c where a backend call failed, and where
\* a page revalidation was issued
FailedCalls(c) == {i \in 1..Len(trace[c]) : ~trace[c][i].ok}
Revalidations(c) == {i \in 1..Len(trace[c]) : trace[c][i].call = "revalidatePath"}

HandlerEnded(c) == op[c] \in Mutations /\ pc[c] = "idle"

\* C12: for uploadFile, renameFile, updateFileUsers and deleteFile, when
\* all backend calls succeed the revalidation of the given path is issued
\* exactly once, after the mutation and before the handler returns; when a
\* backend call fails the error is re-thrown, no revalidation is issued and
\* no success value is returned
C12_RevalidatedOnceOnSuccessOnly ==
    \A c \in Calls :
        /\ op[c] \in Mutations /\ pc[c] # "idle" =>
              Revalidations(c) = {} /\ ret[c].kind = "pending"
        /\ HandlerEnded(c) /\ FailedCalls(c) = {} =>
              /\ ret[c].kind = "returned"
              /\ Revalidations(c) = {Len(trace[c])}
              /\ Len(trace[c]) >= 2
              /\ trace[c][Len(trace[c])] = RevalidatePath(PagePath(c))
        /\ HandlerEnded(c) /\ FailedCalls(c) # {} =>
              /\ ret[c].kind = "threw"
              /\ Revalidations(c) = {}

\* one call has renamed a file and revalidated its page, another has shared
\* a file, and a third handler has failed at its second backend call
C12_Witness ==
    \E c1, c2 \in Calls :
        /\ c1 # c2
        /\ HandlerEnded(c1) /\ HandlerEnded(c2)
        /\ op[c1] = "renameFile"
        /\ trace[c1] = <<Call("updateDocument", TRUE), RevalidatePath(PagePath(c1))>>
        /\ \E d \in filesCollection :
              /\ "name" \in DOMAIN d.data
              /\ "users" \in DOMAIN d.data
        /\ op[c2] = "deleteFile"
        /\ trace[c2] = <<Call("deleteDocument", TRUE), Call("deleteFile", FALSE)>>
        /\ ret[c2].kind = "threw"

\* --------------------------------------------------- claims on SpecAccount
\* the user document call c created, if it created one
CreatedBy(c) == {u \in usersCollection : u.id = UserId(c)}

\* C13 as stated: after any sequence of createAccount calls, concurrent
\* calls for the same email included, the users collection holds at most
\* one user document per email, and a call for an email that already had a
\* user document created no document
C13_OneUserDocumentPerEmail ==
    /\ \A email \in Emails : Cardinality(UsersEqual("email", email)) <= 1
    /\ \A c \in Calls : caHadDocument[c] => CreatedBy(c) = {}

====
